---- MODULE Spec2Model ----
(***************************************************************************)
(* Client-side state of the recruiting application and the backend routes  *)
(* it talks to: the zustand data store (useDataStore), the status handler  *)
(* of ResultsPage, the Google connection hook (useGoogleAuth), the         *)
(* scheduling modal (ScheduleModal + ResultsPage.handleScheduleSubmit) and *)
(* the Express routes of server.ts.                                        *)
(*                                                                         *)
(* Every asynchronous handler is cut at its awaits: the part before the    *)
(* request is one action, the backend's handling of the request is one     *)
(* action, and the continuation after the await is one action.  Requests   *)
(* in flight are kept in issue order; their completions may interleave.    *)
(***************************************************************************)
EXTENDS Integers, Sequences, FiniteSets, TLC

\* ------------------------------------------------------------------ bounds
NumCands == 2
NumJobs == 2
MaxFetch == 2
MaxPatch == 1
MaxDelete == 2
MaxConnect == 2
MaxRefetch == 1
MaxDisconnect == 1
MaxCalFetch == 2
MaxSubmit == 2
NumCalendars == 2
MaxSignup == 3

\* --------------------------------------------------------------- constants
NULL == "null"
\* useAuth's profile when nobody is signed in
NoProfile == [id |-> 0, google_refresh_token |-> NULL]
\* values of the google_refresh_token column
GoogleToken == "refresh-token"
CandIds == 1..NumCands
JobIds == 1..NumJobs
\* the Email of the signed-in user's row, and the emails signup requests carry
loginEmail == "rh@empresa.com"
Emails == {"ana@empresa.com", "Ana@Empresa.com", loginEmail}
\* the four pipeline statuses of DataState.updateCandidateStatusInStore
Statuses == {"Triagem", "Entrevista", "Aprovado", "Reprovado"}
\* the messages fetchAllData can record in `error`
ErrUnexpected == "O servidor retornou uma resposta inesperada."
ErrLoad == "Falha ao carregar dados do servidor."
ErrNetwork == "Failed to fetch"

VARIABLES
  \* useDataStore (zustand)
  jobs,            \* sequence of job ids
  candidates,      \* sequence of [id, status]
  isDataLoading,
  error,
  \* calls of the data store and of ResultsPage that are awaiting the backend
  fetches,         \* fetchAllData calls, in issue order
  patches,         \* handleUpdateCandidateStatus calls
  deletes,         \* deleteJobById calls
  deleteResult,    \* how the last settled deleteJobById promise settled
  \* row store behind the gateway
  dbJobs,          \* set of job ids
  dbStatus,        \* candidate id -> status
  \* session store (useAuth)
  profile,
  refetches,       \* refetchProfile calls awaiting the backend
  \* effects React has queued for the commit that changed their dependencies
  appEffectPending,     \* App's effect on [isAuthenticated, profile]
  profileSyncPending,   \* useGoogleAuth's effect on [profile]
  \* useGoogleAuth
  isGoogleConnected,
  isConnecting,    \* the ref isConnecting.current
  connects,        \* connectGoogleCalendar calls awaiting the backend
  disconnects,     \* disconnectGoogleCalendar calls awaiting the backend
  popups,          \* authorization popups that are open
  hasFocus,        \* the main window has the focus
  pendingAttempts, \* attempts that opened a popup since the focus last returned
  \* users table of the row store
  dbToken,         \* google_refresh_token of the user's row
  \* ResultsPage
  isScheduleModalOpen,
  candidateToSchedule,  \* a candidate id, 0 for null
  scheduleAlert,        \* the last alert of the scheduling handlers
  submits,              \* handleSubmit calls awaiting onSchedule's create-event request
  \* ScheduleModal
  calendars,            \* sequence of [id, primary]
  selectedCalendarId,   \* a calendar id, 0 for ''
  isLoadingCalendars,
  calendarError,
  startDateTime,
  endDateTime,
  isSubmitting,
  calFetches,           \* fetchCalendars calls awaiting the backend
  modalEffectPending,   \* ScheduleModal's effect on [isOpen, profile]
  \* backend: the users table and the requests its auth routes are handling
  users,                \* sequence of the rows' Email, a row's id being its position
  signups,              \* POST /api/auth/signup requests, in arrival order
  callbacks             \* GET /api/google/auth/callback requests being handled

dataVars == <<jobs, candidates, isDataLoading, error, fetches, patches, deletes,
              deleteResult, dbJobs, dbStatus>>
googleVars == <<refetches, profileSyncPending, isGoogleConnected, isConnecting, connects,
                disconnects, popups, hasFocus, pendingAttempts, dbToken>>
schedFormVars == <<isScheduleModalOpen, candidateToSchedule, scheduleAlert, submits,
                   calendars, selectedCalendarId, isLoadingCalendars, calendarError,
                   startDateTime, endDateTime, isSubmitting, calFetches>>
schedVars == <<schedFormVars, modalEffectPending>>
authVars == <<users, signups, callbacks>>
vars == <<jobs, candidates, isDataLoading, error, fetches, patches, deletes,
          deleteResult, dbJobs, dbStatus, profile, appEffectPending, googleVars,
          schedVars, authVars>>

\* ----------------------------------------------------------------- helpers
RemoveAt(s, i) == SubSeq(s, 1, i - 1) \o SubSeq(s, i + 1, Len(s))

RECURSIVE SeqOfSet(_)
\* the rows of a table in id order
SeqOfSet(S) ==
  IF S = {} THEN <<>>
  ELSE LET m == CHOOSE x \in S : \A y \in S : x <= y
       IN <<m>> \o SeqOfSet(S \ {m})

NoResp == [neterr |-> FALSE, json |-> FALSE, ok |-> FALSE, jobs |-> <<>>, candidates |-> <<>>]

\* ------------------------------------------------------------- data store
\* mutant: the status change is lost
updateCandidateStatusInStore_Lost(cands, candidateId, newStatus) == cands

\* state.candidates.map(c => c.id === candidateId ? {...c, status: newStatus} : c)
\* (the status is modelled by its value; the code stores {id: 0, value})
updateCandidateStatusInStore(cands, candidateId, newStatus) ==
  [k \in 1..Len(cands) |->
     IF cands[k].id = candidateId
       THEN [cands[k] EXCEPT !.status = newStatus]
       ELSE cands[k]]

\* state.jobs.filter(job => job.id !== jobId)
filterJobs(js, jobId) == SelectSeq(js, LAMBDA j : j # jobId)

\* mutant: the content type of the response is not looked at
FetchSucceeds_NoContentType(r) == ~r.neterr /\ r.ok

\* the try block of fetchAllData reaches set({jobs, candidates}) only for a
\* response that arrived, is application/json and is ok
FetchSucceeds(r) == ~r.neterr /\ r.json /\ r.ok

\* err.message || 'Falha ao carregar dados.'
FetchErrorMessage(r) ==
  IF r.neterr THEN ErrNetwork
  ELSE IF ~r.json THEN ErrUnexpected
  ELSE ErrLoad

\* the catch block of fetchAllData
fetchCatch(r) ==
  [error |-> FetchErrorMessage(r), jobs |-> <<>>, candidates |-> <<>>]

\* mutant: candidates the store already holds are kept, the response's dropped
fetchTry_KeepsLocal(r) ==
  [error |-> error, jobs |-> r.jobs,
   candidates |-> IF candidates = <<>> THEN r.candidates ELSE candidates]

\* set({ jobs: jobs || [], candidates: candidates || [] })
fetchTry(r) ==
  [error |-> error, jobs |-> r.jobs, candidates |-> r.candidates]

\* fetchAllData up to its await: set({isDataLoading: true, error: null}); fetch(...)
FetchAllDataCall(origin) ==
  /\ isDataLoading' = TRUE
  /\ error' = NULL
  /\ fetches' = Append(fetches, [origin |-> origin, stage |-> "sent", resp |-> NoResp])

\* effects whose dependencies the last commit changed run before anything else
EffectsPending == appEffectPending \/ profileSyncPending \/ modalEffectPending

\* App renders its pages only with a profile and with isDataLoading false
PagesRendered == profile # NoProfile /\ ~isDataLoading

\* a click reaches a rendered page of the focused main window
UserCanAct == ~EffectsPending /\ PagesRendered /\ hasFocus

\* App's effect: fetchAllData(profile) when the session is authenticated
AppFetchAllData ==
  /\ appEffectPending
  /\ ~profileSyncPending
  /\ ~modalEffectPending
  /\ profile # NoProfile
  /\ Len(fetches) < MaxFetch
  /\ FetchAllDataCall("app")
  /\ appEffectPending' = FALSE
  /\ UNCHANGED authVars
  /\ UNCHANGED <<schedVars, jobs, candidates, patches, deletes, deleteResult, dbJobs, dbStatus, profile, googleVars>>

\* mutant: the answer of a call is dropped when a later call has been issued
FetchAllDataDone_LatestOnly(i) ==
  /\ ~EffectsPending
  /\ i \in 1..Len(fetches)
  /\ fetches[i].stage = "replied"
  /\ LET r == fetches[i].resp
         s == IF i < Len(fetches) THEN [jobs |-> jobs, candidates |-> candidates, error |-> error]
              ELSE IF FetchSucceeds(r) THEN fetchTry(r) ELSE fetchCatch(r)
     IN /\ jobs' = s.jobs
        /\ candidates' = s.candidates
        /\ error' = s.error
  /\ isDataLoading' = (i < Len(fetches))
  /\ fetches' = RemoveAt(fetches, i)
  /\ UNCHANGED authVars
  /\ UNCHANGED <<schedVars, patches, deletes, deleteResult, dbJobs, dbStatus, profile, appEffectPending, googleVars>>

\* fetchAllData after its await: try / catch / finally
FetchAllDataDone(i) ==
  /\ ~EffectsPending
  /\ i \in 1..Len(fetches)
  /\ fetches[i].stage = "replied"
  /\ LET r == fetches[i].resp
         s == IF FetchSucceeds(r) THEN fetchTry(r) ELSE fetchCatch(r)
     IN /\ jobs' = s.jobs
        /\ candidates' = s.candidates
        /\ error' = s.error
  /\ isDataLoading' = FALSE
  /\ fetches' = RemoveAt(fetches, i)
  /\ UNCHANGED authVars
  /\ UNCHANGED <<schedVars, patches, deletes, deleteResult, dbJobs, dbStatus, profile, appEffectPending, googleVars>>

\* ResultsPage.handleUpdateCandidateStatus up to its await
HandleUpdateCandidateStatus(c, s) ==
  /\ UserCanAct
  /\ \E k \in 1..Len(candidates) : candidates[k].id = c
  /\ Len(patches) < MaxPatch
  /\ candidates' = updateCandidateStatusInStore(candidates, c, s)
  /\ patches' = Append(patches, [cand |-> c, status |-> s, stage |-> "sent", resp |-> "none"])
  /\ UNCHANGED authVars
  /\ UNCHANGED <<schedVars, jobs, isDataLoading, error, fetches, deletes, deleteResult, dbJobs, dbStatus, profile, appEffectPending, googleVars>>

\* mutant: the failure is reported and nothing is refetched
StatusUpdateFailed_NoRefetch == UNCHANGED <<isDataLoading, error, fetches>>

\* the catch block of handleUpdateCandidateStatus: alert, then
\* if (profile) fetchAllData(profile)
StatusUpdateFailed ==
  IF profile # NoProfile
    THEN FetchAllDataCall("rollback")
    ELSE UNCHANGED <<isDataLoading, error, fetches>>

\* handleUpdateCandidateStatus after its await
HandleUpdateCandidateStatusDone(i) ==
  /\ ~EffectsPending
  /\ i \in 1..Len(patches)
  /\ patches[i].stage = "replied"
  /\ \/ /\ patches[i].resp = "ok"
        /\ UNCHANGED <<isDataLoading, error, fetches>>
     \/ /\ patches[i].resp # "ok"
        /\ Len(fetches) < MaxFetch
        /\ StatusUpdateFailed
  /\ patches' = RemoveAt(patches, i)
  /\ UNCHANGED authVars
  /\ UNCHANGED <<schedVars, jobs, candidates, deletes, deleteResult, dbJobs, dbStatus, profile, appEffectPending, googleVars>>

\* App.handleDeleteJob -> deleteJobById up to its await
DeleteJobById(j) ==
  /\ UserCanAct
  /\ \E k \in 1..Len(jobs) : jobs[k] = j
  /\ Len(deletes) < MaxDelete
  /\ deletes' = Append(deletes, [job |-> j, stage |-> "sent", resp |-> "none"])
  /\ deleteResult' = deleteResult
  /\ UNCHANGED authVars
  /\ UNCHANGED <<schedVars, jobs, candidates, isDataLoading, error, fetches, patches, dbJobs, dbStatus, profile, appEffectPending, googleVars>>

\* mutant: the job is removed whatever the backend answered
deleteSettle_Optimistic(js, d) ==
  [jobs |-> filterJobs(js, d.job),
   result |-> IF d.resp = "ok" THEN "resolved" ELSE "rejected"]

\* what deleteJobById does to the jobs once the DELETE has been answered
deleteSettle(js, d) ==
  IF d.resp = "ok"
    THEN [jobs |-> filterJobs(js, d.job), result |-> "resolved"]
    ELSE [jobs |-> js, result |-> "rejected"]

\* deleteJobById after its await
DeleteJobByIdDone(i) ==
  /\ ~EffectsPending
  /\ i \in 1..Len(deletes)
  /\ deletes[i].stage = "replied"
  /\ LET s == deleteSettle(jobs, deletes[i])
     IN /\ jobs' = s.jobs
        /\ deleteResult' = s.result
  /\ deletes' = RemoveAt(deletes, i)
  /\ UNCHANGED authVars
  /\ UNCHANGED <<schedVars, candidates, isDataLoading, error, fetches, patches, dbJobs, dbStatus, profile, appEffectPending, googleVars>>

\* ------------------------------------------------- backend data routes
\* GET /api/data/all/:userId
ServerGetAll(i) ==
  /\ ~EffectsPending
  /\ i \in 1..Len(fetches)
  /\ fetches[i].stage = "sent"
  /\ \E r \in { [neterr |-> FALSE, json |-> TRUE, ok |-> TRUE,
                 jobs |-> SeqOfSet(dbJobs),
                 candidates |-> [c \in CandIds |-> [id |-> c, status |-> dbStatus[c]]]],
                [neterr |-> FALSE, json |-> FALSE, ok |-> TRUE, jobs |-> <<>>, candidates |-> <<>>],
                [neterr |-> FALSE, json |-> TRUE, ok |-> FALSE, jobs |-> <<>>, candidates |-> <<>>],
                [neterr |-> TRUE, json |-> FALSE, ok |-> FALSE, jobs |-> <<>>, candidates |-> <<>>] } :
        fetches' = [fetches EXCEPT ![i] = [@ EXCEPT !.stage = "replied", !.resp = r]]
  /\ UNCHANGED authVars
  /\ UNCHANGED <<schedVars, jobs, candidates, isDataLoading, error, patches, deletes, deleteResult, dbJobs, dbStatus, profile, appEffectPending, googleVars>>

\* PATCH /api/candidates/:id/status
ServerPatchStatus(i) ==
  /\ ~EffectsPending
  /\ i \in 1..Len(patches)
  /\ patches[i].stage = "sent"
  /\ \E r \in {"ok", "http_error", "neterr"} :
        /\ patches' = [patches EXCEPT ![i] = [@ EXCEPT !.stage = "replied", !.resp = r]]
        /\ dbStatus' = IF r = "ok"
                         THEN [dbStatus EXCEPT ![patches[i].cand] = patches[i].status]
                         ELSE dbStatus
  /\ UNCHANGED authVars
  /\ UNCHANGED <<schedVars, jobs, candidates, isDataLoading, error, fetches, deletes, deleteResult, dbJobs, profile, appEffectPending, googleVars>>

\* DELETE /api/jobs/:id
ServerDeleteJob(i) ==
  /\ ~EffectsPending
  /\ i \in 1..Len(deletes)
  /\ deletes[i].stage = "sent"
  /\ \E r \in {"ok", "http_error", "neterr"} :
        /\ deletes' = [deletes EXCEPT ![i] = [@ EXCEPT !.stage = "replied", !.resp = r]]
        /\ dbJobs' = IF r = "ok" THEN dbJobs \ {deletes[i].job} ELSE dbJobs
  /\ UNCHANGED authVars
  /\ UNCHANGED <<schedVars, jobs, candidates, isDataLoading, error, fetches, patches, deleteResult, dbStatus, profile, appEffectPending, googleVars>>


\* ------------------------------------------------------------ session store
\* setProfile(p): every reader of useAuth().profile re-renders with the new object
updateProfile(p) ==
  /\ profile' = p
  /\ appEffectPending' = TRUE
  /\ profileSyncPending' = TRUE
  /\ modalEffectPending' = isScheduleModalOpen

\* refetchProfile up to its await
refetchProfile == refetches' = refetches + 1

\* GET /api/users/:id: the user's row as it is when the request is served
ServerGetUser == [id |-> 1, google_refresh_token |-> dbToken]

\* refetchProfile after its await: a profile that arrived replaces the session's
RefetchProfileDone(arrived) ==
  /\ ~EffectsPending
  /\ refetches > 0
  /\ Len(fetches) < MaxFetch
  /\ IF arrived
       THEN updateProfile(ServerGetUser)
       ELSE UNCHANGED <<profile, appEffectPending, profileSyncPending, modalEffectPending>>
  /\ refetches' = refetches - 1
  /\ UNCHANGED authVars
  /\ UNCHANGED <<schedFormVars, dataVars, isGoogleConnected, isConnecting, connects, disconnects, popups,
                 hasFocus, pendingAttempts, dbToken>>

\* ------------------------------------------------------------ useGoogleAuth
\* !!profile && !!profile.google_refresh_token
hasGoogleToken(p) ==
  p # NoProfile /\ p.google_refresh_token # NULL /\ p.google_refresh_token # ""

\* useEffect(() => setIsGoogleConnected(hasGoogleToken(profile)), [profile])
ProfileSyncEffect ==
  /\ profileSyncPending
  /\ isGoogleConnected' = hasGoogleToken(profile)
  /\ profileSyncPending' = FALSE
  /\ UNCHANGED authVars
  /\ UNCHANGED <<schedVars, dataVars, profile, refetches, appEffectPending, isConnecting, connects,
                 disconnects, popups, hasFocus, pendingAttempts, dbToken>>

\* mutant: the mark is cleared and the profile is not fetched again
handleFocus_NoRefetch ==
  /\ isConnecting' = FALSE
  /\ UNCHANGED refetches

\* mutant: the profile is fetched again and the mark is left set
handleFocus_KeepsMark ==
  IF isConnecting
    THEN refetchProfile /\ UNCHANGED isConnecting
    ELSE UNCHANGED <<refetches, isConnecting>>

\* handleFocus
handleFocus ==
  IF isConnecting
    THEN /\ refetchProfile
         /\ isConnecting' = FALSE
    ELSE UNCHANGED <<refetches, isConnecting>>

\* the main window regains the focus: its 'focus' listener runs
WindowFocus ==
  /\ ~EffectsPending
  /\ ~hasFocus
  /\ isConnecting => refetches < MaxRefetch
  /\ hasFocus' = TRUE
  /\ handleFocus
  /\ pendingAttempts' = 0
  /\ UNCHANGED authVars
  /\ UNCHANGED <<schedVars, dataVars, profile, appEffectPending, profileSyncPending, isGoogleConnected,
                 connects, disconnects, popups, dbToken>>

\* the user turns to another window
WindowBlur ==
  /\ ~EffectsPending
  /\ hasFocus
  /\ hasFocus' = FALSE
  /\ UNCHANGED authVars
  /\ UNCHANGED <<schedVars, dataVars, profile, refetches, appEffectPending, profileSyncPending,
                 isGoogleConnected, isConnecting, connects, disconnects, popups,
                 pendingAttempts, dbToken>>

\* connectGoogleCalendar up to its await
ConnectGoogleCalendar ==
  /\ UserCanAct
  /\ popups + connects < MaxConnect
  /\ connects' = connects + 1
  /\ UNCHANGED authVars
  /\ UNCHANGED <<schedVars, dataVars, profile, refetches, appEffectPending, profileSyncPending,
                 isGoogleConnected, isConnecting, disconnects, popups, hasFocus,
                 pendingAttempts, dbToken>>

\* GET /api/google/auth/connect: {url: authorizationUrl} for a request with a userId
GoogleAuthConnect == "url"

\* connectGoogleCalendar after its await: if (url) { isConnecting.current = true;
\* window.open(url) }, the popup taking the focus; a failed request alerts
ConnectGoogleCalendarDone(arrived) ==
  /\ ~EffectsPending
  /\ connects > 0
  /\ IF arrived /\ GoogleAuthConnect = "url"
       THEN /\ isConnecting' = TRUE
            /\ popups' = popups + 1
            /\ pendingAttempts' = pendingAttempts + 1
            /\ hasFocus' = FALSE
       ELSE UNCHANGED <<isConnecting, popups, pendingAttempts, hasFocus>>
  /\ connects' = connects - 1
  /\ UNCHANGED authVars
  /\ UNCHANGED <<schedVars, dataVars, profile, refetches, appEffectPending, profileSyncPending,
                 isGoogleConnected, disconnects, dbToken>>

\* disconnectGoogleCalendar up to its await
DisconnectGoogleCalendar ==
  /\ UserCanAct
  /\ Len(disconnects) < MaxDisconnect
  /\ disconnects' = Append(disconnects, "sent")
  /\ UNCHANGED authVars
  /\ UNCHANGED <<schedVars, dataVars, profile, refetches, appEffectPending, profileSyncPending,
                 isGoogleConnected, isConnecting, connects, popups, hasFocus,
                 pendingAttempts, dbToken>>

\* what follows `await fetch(...)` in disconnectGoogleCalendar: the response is
\* not looked at; only a rejected fetch reaches the catch block
disconnectSettle(resp) ==
  IF resp = "neterr"
    THEN UNCHANGED <<profile, appEffectPending, profileSyncPending, modalEffectPending>>
    ELSE updateProfile([profile EXCEPT !.google_refresh_token = NULL])

\* disconnectGoogleCalendar after its await
DisconnectGoogleCalendarDone(i) ==
  /\ ~EffectsPending
  /\ i \in 1..Len(disconnects)
  /\ disconnects[i] # "sent"
  /\ Len(fetches) < MaxFetch
  /\ disconnectSettle(disconnects[i])
  /\ disconnects' = RemoveAt(disconnects, i)
  /\ UNCHANGED authVars
  /\ UNCHANGED <<schedFormVars, dataVars, refetches, isGoogleConnected, isConnecting, connects, popups,
                 hasFocus, pendingAttempts, dbToken>>

\* --------------------------------------------------- backend Google routes
\* GET /api/google/auth/callback, reached from a popup: a request without
\* code or state is answered at once with the close-popup script, another one
\* awaits oauth2Client.getToken(code)
GoogleAuthCallback(code, state) ==
  /\ ~EffectsPending
  /\ Len(callbacks) < popups
  /\ IF code /\ state
       THEN /\ callbacks' = Append(callbacks, [stage |-> "exchanging", tokens |-> "pending"])
            /\ UNCHANGED popups
       ELSE /\ popups' = popups - 1
            /\ UNCHANGED callbacks
  /\ UNCHANGED <<users, signups>>
  /\ UNCHANGED <<schedVars, dataVars, profile, refetches, appEffectPending, profileSyncPending,
                 isGoogleConnected, isConnecting, connects, disconnects, hasFocus,
                 pendingAttempts, dbToken>>

\* what oauth2Client.getToken(code) does: it throws, or gives tokens with or
\* without a refresh_token
TokenExchanges == {"throws", "access token only", "refresh token"}

\* mutant: whatever tokens the exchange gave are saved
RefreshTokenReceived_AnyTokens(exchange) == exchange # "throws"

\* if (tokens.refresh_token), reached only when getToken did not throw
RefreshTokenReceived(exchange) == exchange = "refresh token"

\* the callback after getToken: with a refresh token it awaits
\* baserowServer.patch, otherwise it answers with the close-popup script
GoogleAuthCallbackExchanged(i, exchange) ==
  /\ ~EffectsPending
  /\ i \in 1..Len(callbacks)
  /\ callbacks[i].stage = "exchanging"
  /\ IF RefreshTokenReceived(exchange)
       THEN /\ callbacks' = [callbacks EXCEPT ![i] = [stage |-> "saving", tokens |-> exchange]]
            /\ UNCHANGED popups
       ELSE /\ callbacks' = RemoveAt(callbacks, i)
            /\ popups' = popups - 1
  /\ UNCHANGED <<users, signups>>
  /\ UNCHANGED <<schedVars, dataVars, profile, refetches, appEffectPending, profileSyncPending,
                 isGoogleConnected, isConnecting, connects, disconnects, hasFocus,
                 pendingAttempts, dbToken>>

\* the callback after baserowServer.patch, which saved the token or threw:
\* the answer is the close-popup script in both cases
GoogleAuthCallbackSaved(i, saved) ==
  /\ ~EffectsPending
  /\ i \in 1..Len(callbacks)
  /\ callbacks[i].stage = "saving"
  /\ dbToken' = IF saved THEN GoogleToken ELSE dbToken
  /\ callbacks' = RemoveAt(callbacks, i)
  /\ popups' = popups - 1
  /\ UNCHANGED <<users, signups>>
  /\ UNCHANGED <<schedVars, dataVars, profile, refetches, appEffectPending, profileSyncPending,
                 isGoogleConnected, isConnecting, connects, disconnects, hasFocus,
                 pendingAttempts>>

\* POST /api/google/auth/disconnect
GoogleAuthDisconnect(i) ==
  /\ ~EffectsPending
  /\ i \in 1..Len(disconnects)
  /\ disconnects[i] = "sent"
  /\ \/ \* baserowServer.patch succeeds: 200
        /\ dbToken' = NULL
        /\ disconnects' = [disconnects EXCEPT ![i] = "ok"]
     \/ \* baserowServer.patch throws: 500
        /\ dbToken' = dbToken
        /\ disconnects' = [disconnects EXCEPT ![i] = "http_error"]
     \/ \* the request never arrives
        /\ dbToken' = dbToken
        /\ disconnects' = [disconnects EXCEPT ![i] = "neterr"]
  /\ UNCHANGED authVars
  /\ UNCHANGED <<schedVars, dataVars, profile, refetches, appEffectPending, profileSyncPending,
                 isGoogleConnected, isConnecting, connects, popups, hasFocus,
                 pendingAttempts>>

\* ------------------------------------------------- scheduling (ResultsPage)
\* messages of the scheduling flow
ErrNotConnected == "Usuário não conectado ao Google Calendar. Por favor, conecte sua conta nas configurações."
ErrGoogleApi == "Google API error"
ErrListCalendars == "Falha ao buscar calendários do Google."
ErrNoCalendar == "Nenhum calendário com permissão de escrita foi encontrado na sua conta Google."
ErrSchedule == "Não foi possível agendar a entrevista."
MsgFillFields == "Por favor, preencha todos os campos e selecione um calendário."
MsgScheduled == "Entrevista agendada com sucesso!"
SomeDateTime == "2026-01-15T10:00"

\* what calendar.calendarList.list() gives the route: data.items may be absent
NoItems == [present |-> FALSE, items |-> <<>>]

\* the calendar lists of a Google account: no items, a calendar the user can
\* only read, a calendar the user can write that is not primary, and a
\* read-only calendar followed by writable ones of which the last is primary
GoogleCalendarLists ==
  { NoItems,
    [present |-> TRUE, items |-> <<[id |-> 1, primary |-> FALSE, accessRole |-> "reader"]>>],
    [present |-> TRUE, items |-> <<[id |-> 1, primary |-> FALSE, accessRole |-> "writer"]>>],
    [present |-> TRUE,
     items |-> [k \in 1..(NumCalendars + 1) |->
                  IF k = 1
                    THEN [id |-> NumCalendars + 1, primary |-> FALSE, accessRole |-> "reader"]
                    ELSE [id |-> k - 1, primary |-> (k - 1 = NumCalendars),
                          accessRole |-> IF k - 1 = NumCalendars THEN "owner" ELSE "writer"]]] }

\* mutant: every calendar of the account is returned
simplifiedCalendars_Unfiltered(g) == IF ~g.present THEN <<>> ELSE g.items

\* list-calendars: [] without items, else items.map(...).filter(cal =>
\* cal.accessRole === 'owner' || cal.accessRole === 'writer')
simplifiedCalendars(g) ==
  IF ~g.present
    THEN <<>>
    ELSE SelectSeq(g.items, LAMBDA cal : cal.accessRole = "owner" \/ cal.accessRole = "writer")

\* the lists of writable calendars the route may answer with
CalendarLists == { simplifiedCalendars(g) : g \in GoogleCalendarLists }

\* a request that is not answered yet
NoReply == [neterr |-> FALSE, ok |-> FALSE, success |-> FALSE, message |-> "", calendars |-> <<>>]

\* handleOpenScheduleModal(candidate), from a card of the Kanban board
HandleOpenScheduleModal(c) ==
  /\ UserCanAct
  /\ ~isScheduleModalOpen
  /\ \E k \in 1..Len(candidates) : candidates[k].id = c
  /\ Len(calFetches) < MaxCalFetch
  /\ IF ~isGoogleConnected
       THEN /\ scheduleAlert' = [kind |-> "info", message |-> "Conecte sua conta Google"]
            /\ UNCHANGED <<candidateToSchedule, isScheduleModalOpen, modalEffectPending>>
       ELSE /\ candidateToSchedule' = c
            /\ isScheduleModalOpen' = TRUE
            /\ modalEffectPending' = TRUE
            /\ UNCHANGED scheduleAlert
  /\ UNCHANGED authVars
  /\ UNCHANGED <<dataVars, profile, appEffectPending, googleVars, submits, calendars,
                 selectedCalendarId, isLoadingCalendars, calendarError, startDateTime,
                 endDateTime, isSubmitting, calFetches>>

\* ScheduleModal's effect: if (isOpen && profile) { setIsLoadingCalendars(true);
\* setCalendarError(''); fetchCalendars() }
FetchCalendarsEffect ==
  /\ modalEffectPending
  /\ modalEffectPending' = FALSE
  /\ IF isScheduleModalOpen /\ profile # NoProfile
       THEN /\ isLoadingCalendars' = TRUE
            /\ calendarError' = ""
            /\ calFetches' = Append(calFetches, [stage |-> "sent", resp |-> NoReply,
                                                 google |-> NoItems])
       ELSE UNCHANGED <<isLoadingCalendars, calendarError, calFetches>>
  /\ UNCHANGED authVars
  /\ UNCHANGED <<dataVars, profile, appEffectPending, googleVars, isScheduleModalOpen,
                 candidateToSchedule, scheduleAlert, submits, calendars, selectedCalendarId,
                 startDateTime, endDateTime, isSubmitting>>

\* mutant: the primary calendar is not looked for
PrimaryCalendarId_None(cals) == 0

\* data.calendars.find(cal => cal.primary)?.id, 0 when no calendar is primary
PrimaryCalendarId(cals) ==
  IF \E k \in 1..Len(cals) : cals[k].primary
    THEN cals[CHOOSE k \in 1..Len(cals) :
                 cals[k].primary /\ \A j \in 1..(k - 1) : ~cals[j].primary].id
    ELSE 0

\* mutant: an empty list of calendars is not an error
calendarsSettle_EmptyIsFine(r) ==
  IF r.neterr
    THEN [calendars |-> calendars, selected |-> selectedCalendarId, error |-> ErrNetwork]
  ELSE IF ~r.ok \/ ~r.success
    THEN [calendars |-> calendars, selected |-> selectedCalendarId,
          error |-> IF r.message # "" THEN r.message ELSE ErrListCalendars]
  ELSE [calendars |-> r.calendars,
        selected |-> IF Len(r.calendars) > 0 THEN r.calendars[1].id ELSE selectedCalendarId,
        error |-> calendarError]

\* what fetchCalendars sets once its request is answered by r
calendarsSettle(r) ==
  IF r.neterr
    THEN [calendars |-> calendars, selected |-> selectedCalendarId, error |-> ErrNetwork]
  ELSE IF ~r.ok \/ ~r.success
    THEN [calendars |-> calendars, selected |-> selectedCalendarId,
          error |-> IF r.message # "" THEN r.message ELSE ErrListCalendars]
  ELSE IF PrimaryCalendarId(r.calendars) # 0
    THEN [calendars |-> r.calendars, selected |-> PrimaryCalendarId(r.calendars),
          error |-> calendarError]
  ELSE IF Len(r.calendars) > 0
    THEN [calendars |-> r.calendars, selected |-> r.calendars[1].id, error |-> calendarError]
  ELSE [calendars |-> r.calendars, selected |-> selectedCalendarId, error |-> ErrNoCalendar]

\* mutant: the answer is dropped when the modal was closed or opened again
FetchCalendarsDone_Aborted(i) ==
  /\ ~EffectsPending
  /\ i \in 1..Len(calFetches)
  /\ calFetches[i].stage = "replied"
  /\ IF isScheduleModalOpen /\ i = Len(calFetches)
       THEN /\ LET s == calendarsSettle(calFetches[i].resp)
               IN /\ calendars' = s.calendars
                  /\ selectedCalendarId' = s.selected
                  /\ calendarError' = s.error
            /\ isLoadingCalendars' = FALSE
       ELSE UNCHANGED <<calendars, selectedCalendarId, calendarError, isLoadingCalendars>>
  /\ calFetches' = RemoveAt(calFetches, i)
  /\ UNCHANGED authVars
  /\ UNCHANGED <<dataVars, profile, appEffectPending, googleVars, isScheduleModalOpen,
                 candidateToSchedule, scheduleAlert, submits, startDateTime, endDateTime,
                 isSubmitting, modalEffectPending>>

\* fetchCalendars after its await
FetchCalendarsDone(i) ==
  /\ ~EffectsPending
  /\ i \in 1..Len(calFetches)
  /\ calFetches[i].stage = "replied"
  /\ LET s == calendarsSettle(calFetches[i].resp)
     IN /\ calendars' = s.calendars
        /\ selectedCalendarId' = s.selected
        /\ calendarError' = s.error
  /\ isLoadingCalendars' = FALSE
  /\ calFetches' = RemoveAt(calFetches, i)
  /\ UNCHANGED authVars
  /\ UNCHANGED <<dataVars, profile, appEffectPending, googleVars, isScheduleModalOpen,
                 candidateToSchedule, scheduleAlert, submits, startDateTime, endDateTime,
                 isSubmitting, modalEffectPending>>

\* the modal is rendered: if (!isOpen || !candidate) return null
ModalRendered == isScheduleModalOpen /\ candidateToSchedule # 0

\* the user fills in or clears a date field of the form
ChangeDateTime(field, value) ==
  /\ UserCanAct
  /\ ModalRendered
  /\ ~isLoadingCalendars /\ calendarError = ""
  /\ IF field = "start"
       THEN startDateTime' = value /\ startDateTime # value /\ UNCHANGED endDateTime
       ELSE endDateTime' = value /\ endDateTime # value /\ UNCHANGED startDateTime
  /\ UNCHANGED authVars
  /\ UNCHANGED <<dataVars, profile, appEffectPending, googleVars, isScheduleModalOpen,
                 candidateToSchedule, scheduleAlert, submits, calendars, selectedCalendarId,
                 isLoadingCalendars, calendarError, isSubmitting, calFetches,
                 modalEffectPending>>

\* onClose, from the X button (the Cancel button is disabled while submitting)
CloseModal ==
  /\ UserCanAct
  /\ ModalRendered
  /\ isScheduleModalOpen' = FALSE
  /\ UNCHANGED authVars
  /\ UNCHANGED <<dataVars, profile, appEffectPending, googleVars, candidateToSchedule,
                 scheduleAlert, submits, calendars, selectedCalendarId, isLoadingCalendars,
                 calendarError, startDateTime, endDateTime, isSubmitting, calFetches,
                 modalEffectPending>>

\* mutant: the submit button stays enabled while a submission is in flight
SubmitEnabled_WhileSubmitting == ~isLoadingCalendars /\ calendarError = ""

\* the submit button: disabled={isSubmitting || isLoadingCalendars || !!calendarError}
SubmitEnabled == ~isSubmitting /\ ~isLoadingCalendars /\ calendarError = ""

\* mutant: the end of the interview is not required
SubmissionIncomplete_EndOptional == startDateTime = "" \/ selectedCalendarId = 0

\* the job whose results the page shows (the selectedJob prop of ResultsPage)
selectedJob == 1

\* what a create-event request has left in Google Calendar and in the row
\* store: so far nothing
NoEvent == [calendarId |-> 0, htmlLink |-> ""]
NoAgendamento == [candidate |-> 0, job |-> 0, google_event_link |-> ""]

\* !startDateTime || !endDateTime || !selectedCalendarId
SubmissionIncomplete == startDateTime = "" \/ endDateTime = "" \/ selectedCalendarId = 0

\* handleSubmit up to the await of handleScheduleSubmit's request
HandleSubmit ==
  /\ UserCanAct
  /\ ModalRendered
  /\ SubmitEnabled
  /\ Len(submits) < MaxSubmit
  /\ IF SubmissionIncomplete
       THEN /\ scheduleAlert' = [kind |-> "info", message |-> MsgFillFields]
            /\ UNCHANGED <<isSubmitting, submits>>
       ELSE /\ isSubmitting' = TRUE
            /\ submits' = Append(submits, [stage |-> "sent", resp |-> NoReply,
                                           calendarId |-> selectedCalendarId,
                                           candidate |-> candidateToSchedule,
                                           job |-> selectedJob,
                                           event |-> NoEvent,
                                           agendamento |-> NoAgendamento])
            /\ UNCHANGED scheduleAlert
  /\ UNCHANGED authVars
  /\ UNCHANGED <<dataVars, profile, appEffectPending, googleVars, isScheduleModalOpen,
                 candidateToSchedule, calendars, selectedCalendarId, isLoadingCalendars,
                 calendarError, startDateTime, endDateTime, calFetches, modalEffectPending>>

\* !response.ok || !data.success is false
ScheduleSucceeds(r) == ~r.neterr /\ r.ok /\ r.success

\* mutant: the data is synchronised again whatever the answer
scheduleSettle_AlwaysSyncs(r) ==
  /\ scheduleAlert' = IF ScheduleSucceeds(r)
                         THEN [kind |-> "info", message |-> MsgScheduled]
                         ELSE [kind |-> "error", message |-> ErrSchedule]
  /\ FetchAllDataCall("synced")

\* the try and catch blocks of handleScheduleSubmit once the request is answered
scheduleSettle(r) ==
  IF ScheduleSucceeds(r)
    THEN /\ scheduleAlert' = [kind |-> "info", message |-> MsgScheduled]
         /\ FetchAllDataCall("synced")
    ELSE /\ scheduleAlert' =
              [kind |-> "error",
               message |-> IF r.neterr THEN ErrNetwork
                           ELSE IF r.message # "" THEN r.message ELSE ErrSchedule]
         /\ UNCHANGED <<isDataLoading, error, fetches>>

\* the finally block of handleScheduleSubmit, then setIsSubmitting(false) and
\* onClose() of handleSubmit: whatever the answer, the modal is closed
scheduleFinally(r) ==
  /\ isScheduleModalOpen' = FALSE
  /\ candidateToSchedule' = 0

\* mutant: a submission the backend rejected is sent again
HandleSubmitDone_Retries(i) ==
  /\ ~EffectsPending
  /\ i \in 1..Len(submits)
  /\ submits[i].stage = "replied"
  /\ Len(fetches) < MaxFetch
  /\ IF ScheduleSucceeds(submits[i].resp)
       THEN /\ scheduleSettle(submits[i].resp)
            /\ scheduleFinally(submits[i].resp)
            /\ isSubmitting' = FALSE
            /\ submits' = RemoveAt(submits, i)
       ELSE /\ submits' = [submits EXCEPT ![i] = [@ EXCEPT !.stage = "sent", !.resp = NoReply]]
            /\ UNCHANGED <<scheduleAlert, isDataLoading, error, fetches, isScheduleModalOpen,
                           candidateToSchedule, isSubmitting>>
  /\ UNCHANGED authVars
  /\ UNCHANGED <<jobs, candidates, patches, deletes, deleteResult, dbJobs, dbStatus,
                 profile, appEffectPending, googleVars, calendars, selectedCalendarId,
                 isLoadingCalendars, calendarError, startDateTime, endDateTime, calFetches,
                 modalEffectPending>>

\* handleScheduleSubmit after its await, and handleSubmit after it
HandleSubmitDone(i) ==
  /\ ~EffectsPending
  /\ i \in 1..Len(submits)
  /\ submits[i].stage = "replied"
  /\ Len(fetches) < MaxFetch
  /\ scheduleSettle(submits[i].resp)
  /\ scheduleFinally(submits[i].resp)
  /\ isSubmitting' = FALSE
  /\ submits' = RemoveAt(submits, i)
  /\ UNCHANGED authVars
  /\ UNCHANGED <<jobs, candidates, patches, deletes, deleteResult, dbJobs, dbStatus,
                 profile, appEffectPending, googleVars, calendars, selectedCalendarId,
                 isLoadingCalendars, calendarError, startDateTime, endDateTime, calFetches,
                 modalEffectPending>>

\* ------------------------------------------------- backend calendar routes
\* getAuthenticatedCalendarClient throws when the user's row has no token
CalendarClientAvailable == dbToken # NULL /\ dbToken # ""

\* GET /api/google/calendar/list-calendars: what Google gave the route, and
\* the answer of the route
ListCalendarsOutcomes ==
  (IF CalendarClientAvailable
     THEN { [google |-> g,
             reply |-> [neterr |-> FALSE, ok |-> TRUE, success |-> TRUE, message |-> "",
                        calendars |-> simplifiedCalendars(g)]] : g \in GoogleCalendarLists } \cup
          { [google |-> NoItems,
             reply |-> [neterr |-> FALSE, ok |-> FALSE, success |-> FALSE,
                        message |-> ErrGoogleApi, calendars |-> <<>>]] }
     ELSE { [google |-> NoItems,
             reply |-> [neterr |-> FALSE, ok |-> FALSE, success |-> FALSE,
                        message |-> ErrNotConnected, calendars |-> <<>>]] })
  \cup { [google |-> NoItems,
          reply |-> [neterr |-> TRUE, ok |-> FALSE, success |-> FALSE, message |-> "",
                     calendars |-> <<>>]] }

\* the answers of the route
ListCalendarsReplies == { o.reply : o \in ListCalendarsOutcomes }

ServerListCalendars(i) ==
  /\ ~EffectsPending
  /\ i \in 1..Len(calFetches)
  /\ calFetches[i].stage = "sent"
  /\ \E o \in ListCalendarsOutcomes :
        calFetches' = [calFetches EXCEPT ![i] = [stage |-> "replied", resp |-> o.reply,
                                                 google |-> o.google]]
  /\ UNCHANGED authVars
  /\ UNCHANGED <<dataVars, profile, appEffectPending, googleVars, isScheduleModalOpen,
                 candidateToSchedule, scheduleAlert, submits, calendars, selectedCalendarId,
                 isLoadingCalendars, calendarError, startDateTime, endDateTime, isSubmitting,
                 modalEffectPending>>

\* POST /api/google/calendar/create-event: its answers
ErrInsufficientData == "Dados insuficientes para criar o evento (userId, eventData, candidate, job, calendarId são obrigatórios)."
ErrRowStore == "Request failed with status code 500"
EventHtmlLink == "https://www.google.com/calendar/event?eid=1"
RequestLost == [neterr |-> TRUE, ok |-> FALSE, success |-> FALSE, message |-> "", calendars |-> <<>>]
EventCreated ==
  [neterr |-> FALSE, ok |-> TRUE, success |-> TRUE, message |-> "Evento criado com sucesso!",
   calendars |-> <<>>]
EventNotCreated(msg) ==
  [neterr |-> FALSE, ok |-> FALSE, success |-> FALSE, message |-> msg, calendars |-> <<>>]

CreateEventReplies ==
  { EventCreated, RequestLost } \cup
  { EventNotCreated(msg) : msg \in {ErrInsufficientData, ErrNotConnected, ErrGoogleApi, ErrRowStore} }

\* the route up to the await of calendar.events.insert: the check of the body,
\* getAuthenticatedCalendarClient, and the insert, which throws or creates the
\* event in the calendar of the request
createEventInsert(req, outcome) ==
  IF outcome = "lost"
    THEN [req EXCEPT !.stage = "replied", !.resp = RequestLost]
  ELSE IF req.candidate = 0 \/ req.job = 0 \/ req.calendarId = 0
    THEN [req EXCEPT !.stage = "replied", !.resp = EventNotCreated(ErrInsufficientData)]
  ELSE IF ~CalendarClientAvailable
    THEN [req EXCEPT !.stage = "replied", !.resp = EventNotCreated(ErrNotConnected)]
  ELSE IF outcome = "insert throws"
    THEN [req EXCEPT !.stage = "replied", !.resp = EventNotCreated(ErrGoogleApi)]
  ELSE [req EXCEPT !.stage = "inserted",
                   !.event = [calendarId |-> req.calendarId, htmlLink |-> EventHtmlLink]]

ServerCreateEvent(i) ==
  /\ ~EffectsPending
  /\ i \in 1..Len(submits)
  /\ submits[i].stage = "sent"
  /\ \E outcome \in {"lost", "insert throws", "inserted"} :
        submits' = [submits EXCEPT ![i] = createEventInsert(@, outcome)]
  /\ UNCHANGED authVars
  /\ UNCHANGED <<dataVars, profile, appEffectPending, googleVars, isScheduleModalOpen,
                 candidateToSchedule, scheduleAlert, calendars, selectedCalendarId,
                 isLoadingCalendars, calendarError, startDateTime, endDateTime, isSubmitting,
                 calFetches, modalEffectPending>>

\* mutant: the answer does not wait for the row store
createEventPersist_Unchecked(req, saved) ==
  [req EXCEPT !.stage = "replied",
              !.resp = EventCreated,
              !.agendamento = IF saved
                                THEN [candidate |-> req.candidate, job |-> req.job,
                                      google_event_link |-> req.event.htmlLink]
                                ELSE NoAgendamento]

\* the route after the insert: baserowServer.post of the agendamento record,
\* then the success answer; the catch block answers 500 when the post throws
createEventPersist(req, saved) ==
  IF saved
    THEN [req EXCEPT !.stage = "replied",
                     !.resp = EventCreated,
                     !.agendamento = [candidate |-> req.candidate, job |-> req.job,
                                      google_event_link |-> req.event.htmlLink]]
    ELSE [req EXCEPT !.stage = "replied", !.resp = EventNotCreated(ErrRowStore)]

ServerCreateEventPersist(i) ==
  /\ ~EffectsPending
  /\ i \in 1..Len(submits)
  /\ submits[i].stage = "inserted"
  /\ \E saved \in BOOLEAN :
        submits' = [submits EXCEPT ![i] = createEventPersist(@, saved)]
  /\ UNCHANGED authVars
  /\ UNCHANGED <<dataVars, profile, appEffectPending, googleVars, isScheduleModalOpen,
                 candidateToSchedule, scheduleAlert, calendars, selectedCalendarId,
                 isLoadingCalendars, calendarError, startDateTime, endDateTime, isSubmitting,
                 calFetches, modalEffectPending>>

\* ------------------------------------------------- backend signup route
\* email.toLowerCase()
toLowerCase(email) == IF email = "Ana@Empresa.com" THEN "ana@empresa.com" ELSE email

\* baserowServer.get(USERS_TABLE_ID, `?filter__Email__equal=${emailLowerCase}`)
existingUsers(rows, emailLowerCase) == SelectSeq(rows, LAMBDA e : e = emailLowerCase)

\* POST /api/auth/signup up to its first await: 400 without nome, email or
\* password, otherwise the lookup of the email is sent to the row store
SignupRequest(email, complete) ==
  /\ Len(signups) < MaxSignup
  /\ signups' = Append(signups,
                       IF complete
                         THEN [email |-> email, stage |-> "checking", status |-> 0, row |-> 0]
                         ELSE [email |-> email, stage |-> "answered", status |-> 400, row |-> 0])
  /\ UNCHANGED <<users, callbacks>>
  /\ UNCHANGED <<dataVars, profile, appEffectPending, googleVars, schedVars>>

\* the route once the lookup has settled: 500 when it threw, 409 when a row
\* has the email, otherwise bcrypt.hash and then baserowServer.post
signupChecked(req, rows, found) ==
  IF ~found
    THEN [req EXCEPT !.stage = "answered", !.status = 500]
  ELSE IF Len(existingUsers(rows, toLowerCase(req.email))) > 0
    THEN [req EXCEPT !.stage = "answered", !.status = 409]
  ELSE [req EXCEPT !.stage = "creating"]

SignupChecked(i, found) ==
  /\ i \in 1..Len(signups)
  /\ signups[i].stage = "checking"
  /\ signups' = [signups EXCEPT ![i] = signupChecked(@, users, found)]
  /\ UNCHANGED <<users, callbacks>>
  /\ UNCHANGED <<dataVars, profile, appEffectPending, googleVars, schedVars>>

\* the route once baserowServer.post has settled: 201 with the new row, or
\* 500 when it threw
SignupCreated(i, created) ==
  /\ i \in 1..Len(signups)
  /\ signups[i].stage = "creating"
  /\ IF created
       THEN /\ users' = Append(users, toLowerCase(signups[i].email))
            /\ signups' = [signups EXCEPT ![i] = [@ EXCEPT !.stage = "answered", !.status = 201,
                                                           !.row = Len(users) + 1]]
       ELSE /\ users' = users
            /\ signups' = [signups EXCEPT ![i] = [@ EXCEPT !.stage = "answered", !.status = 500]]
  /\ UNCHANGED callbacks
  /\ UNCHANGED <<dataVars, profile, appEffectPending, googleVars, schedVars>>

\* ------------------------------------------------------------ specification
\* POST /api/auth/login: google_refresh_token: user.google_refresh_token || null
loginProfile ==
  [id |-> 1, google_refresh_token |-> IF dbToken = "" THEN NULL ELSE dbToken]

\* no alert shown
NoAlert == [kind |-> "none", message |-> ""]

\* the session after login, the users row holding `token`
InitWith(token) ==
  /\ dbToken = token
  /\ jobs = <<>>
  /\ candidates = <<>>
  /\ isDataLoading = FALSE
  /\ error = NULL
  /\ fetches = <<>>
  /\ patches = <<>>
  /\ deletes = <<>>
  /\ deleteResult = "none"
  /\ dbJobs = JobIds
  /\ dbStatus = [c \in CandIds |-> "Triagem"]
  /\ profile = loginProfile
  /\ appEffectPending = TRUE
  /\ refetches = 0
  /\ profileSyncPending = FALSE
  /\ isGoogleConnected = hasGoogleToken(profile)
  /\ isConnecting = FALSE
  /\ connects = 0
  /\ disconnects = <<>>
  /\ popups = 0
  /\ hasFocus = TRUE
  /\ pendingAttempts = 0
  /\ isScheduleModalOpen = FALSE
  /\ candidateToSchedule = 0
  /\ scheduleAlert = NoAlert
  /\ submits = <<>>
  /\ calendars = <<>>
  /\ selectedCalendarId = 0
  /\ isLoadingCalendars = TRUE
  /\ calendarError = ""
  /\ startDateTime = ""
  /\ endDateTime = ""
  /\ isSubmitting = FALSE
  /\ calFetches = <<>>
  /\ modalEffectPending = FALSE
  /\ users = <<loginEmail>>
  /\ signups = <<>>
  /\ callbacks = <<>>

\* a user who has not connected a Google account
Init == InitWith(NULL)

\* a user whose Google account was connected in an earlier session
InitConnected == InitWith(GoogleToken)

\* the results page with the store loaded and the modal ready to be submitted:
\* the calendars are loaded, one is selected and both dates are filled in
InitReadyToSubmit ==
  /\ dbToken = GoogleToken
  /\ jobs = [j \in JobIds |-> j]
  /\ candidates = [c \in CandIds |-> [id |-> c, status |-> "Triagem"]]
  /\ isDataLoading = FALSE
  /\ error = NULL
  /\ fetches = <<>>
  /\ patches = <<>>
  /\ deletes = <<>>
  /\ deleteResult = "none"
  /\ dbJobs = JobIds
  /\ dbStatus = [c \in CandIds |-> "Triagem"]
  /\ profile = loginProfile
  /\ appEffectPending = FALSE
  /\ refetches = 0
  /\ profileSyncPending = FALSE
  /\ isGoogleConnected = hasGoogleToken(profile)
  /\ isConnecting = FALSE
  /\ connects = 0
  /\ disconnects = <<>>
  /\ popups = 0
  /\ hasFocus = TRUE
  /\ pendingAttempts = 0
  /\ isScheduleModalOpen = TRUE
  /\ candidateToSchedule = 1
  /\ scheduleAlert = NoAlert
  /\ submits = <<>>
  /\ calendars \in CalendarLists \ {<<>>}
  /\ selectedCalendarId = PrimaryCalendarId(calendars)
  /\ isLoadingCalendars = FALSE
  /\ calendarError = ""
  /\ startDateTime = SomeDateTime
  /\ endDateTime = SomeDateTime
  /\ isSubmitting = FALSE
  /\ calFetches = <<>>
  /\ modalEffectPending = FALSE
  /\ users = <<loginEmail>>
  /\ signups = <<>>
  /\ callbacks = <<>>

\* effects run first (a child's before its parent's)
NextEffects ==
  \/ ProfileSyncEffect
  \/ AppFetchAllData

\* the data store's fetch, as every page uses it
NextFetch ==
  \/ \E i \in 1..MaxFetch : FetchAllDataDone(i)
  \/ \E i \in 1..MaxFetch : ServerGetAll(i)

\* the candidate pipeline (Kanban status changes)
NextStatus ==
  \/ \E c \in CandIds, s \in Statuses : HandleUpdateCandidateStatus(c, s)
  \/ \E i \in 1..MaxPatch : HandleUpdateCandidateStatusDone(i)
  \/ \E i \in 1..MaxPatch : ServerPatchStatus(i)

\* the dashboard's job deletion
NextJobs ==
  \/ \E j \in JobIds : DeleteJobById(j)
  \/ \E i \in 1..MaxDelete : DeleteJobByIdDone(i)
  \/ \E i \in 1..MaxDelete : ServerDeleteJob(i)

\* the Google connection of the settings page
NextGoogle ==
  \/ WindowFocus
  \/ WindowBlur
  \/ ConnectGoogleCalendar
  \/ \E arrived \in BOOLEAN : ConnectGoogleCalendarDone(arrived)
  \/ DisconnectGoogleCalendar
  \/ \E i \in 1..MaxDisconnect : DisconnectGoogleCalendarDone(i)
  \/ \E arrived \in BOOLEAN : RefetchProfileDone(arrived)
  \/ \E code \in BOOLEAN, state \in BOOLEAN : GoogleAuthCallback(code, state)
  \/ \E i \in 1..MaxConnect, exchange \in TokenExchanges : GoogleAuthCallbackExchanged(i, exchange)
  \/ \E i \in 1..MaxConnect, saved \in BOOLEAN : GoogleAuthCallbackSaved(i, saved)
  \/ \E i \in 1..MaxDisconnect : GoogleAuthDisconnect(i)

\* the scheduling modal: opening, closing and loading the calendars
NextCalendars ==
  \/ FetchCalendarsEffect
  \/ \E c \in CandIds : HandleOpenScheduleModal(c)
  \/ \E i \in 1..MaxCalFetch : FetchCalendarsDone(i)
  \/ \E i \in 1..MaxCalFetch : ServerListCalendars(i)
  \/ CloseModal

\* the scheduling modal: the form and its submission
NextSubmit ==
  \/ \E f \in {"start", "end"}, v \in {"", SomeDateTime} : ChangeDateTime(f, v)
  \/ HandleSubmit
  \/ \E i \in 1..MaxSubmit : HandleSubmitDone(i)
  \/ \E i \in 1..MaxSubmit : ServerCreateEvent(i)
  \/ \E i \in 1..MaxSubmit : ServerCreateEventPersist(i)

\* the scheduling of an interview from the results page
NextSchedule == NextCalendars \/ NextSubmit

\* the operations that send a request to the backend's data and scheduling
\* routes, the routes, and what the operations do with the answers
NextRequests ==
  \/ NextFetch
  \/ HandleUpdateCandidateStatus(1, "Entrevista")
  \/ \E i \in 1..MaxPatch : HandleUpdateCandidateStatusDone(i)
  \/ \E i \in 1..MaxPatch : ServerPatchStatus(i)
  \/ NextJobs
  \/ HandleSubmit
  \/ \E i \in 1..MaxSubmit : HandleSubmitDone(i)
  \/ \E i \in 1..MaxSubmit : ServerCreateEvent(i)
  \/ \E i \in 1..MaxSubmit : ServerCreateEventPersist(i)

\* the signup route, several requests at a time
NextSignup ==
  \/ \E email \in Emails, complete \in BOOLEAN : SignupRequest(email, complete)
  \/ \E i \in 1..MaxSignup, found \in BOOLEAN : SignupChecked(i, found)
  \/ \E i \in 1..MaxSignup, created \in BOOLEAN : SignupCreated(i, created)

Next == NextEffects \/ NextFetch \/ NextStatus \/ NextJobs \/ NextGoogle \/ NextSchedule \/ NextSignup

Spec == Init /\ [][Next]_vars

\* one page at a time
SpecStatus == Init /\ [][AppFetchAllData \/ NextFetch \/ NextStatus]_vars
SpecJobs == Init /\ [][AppFetchAllData \/ NextFetch \/ NextJobs]_vars
SpecGoogle == Init /\ [][NextEffects \/ NextFetch \/ NextGoogle]_vars
SpecSchedule == InitConnected /\ [][AppFetchAllData \/ NextFetch \/ NextSchedule]_vars
SpecCalendars == InitConnected /\ [][AppFetchAllData \/ NextFetch \/ NextCalendars]_vars

\* the signup route alone
SpecSignup == Init /\ [][NextSignup]_vars

\* every request-sending operation together, from the modal ready to submit
SpecRequests == InitReadyToSubmit /\ [][NextRequests]_vars

\* ------------------------------------------------------------------ claims
\* the status the store holds for candidate c (NULL when c is not in the store)
StoreStatus(cands, c) ==
  IF \E k \in 1..Len(cands) : cands[k].id = c
    THEN cands[CHOOSE k \in 1..Len(cands) : cands[k].id = c].status
    ELSE NULL

\* C1: deleteJobById leaves jobs alone when it sends the DELETE; when the
\* DELETE is answered it removes the job and resolves if the answer is a
\* success, and otherwise leaves jobs unchanged and rejects.
C1_DeleteAfterConfirmation ==
  [][ /\ Len(deletes') > Len(deletes) => jobs' = jobs
      /\ Len(deletes') < Len(deletes) =>
           \E i \in 1..Len(deletes) :
              /\ deletes' = RemoveAt(deletes, i)
              /\ deletes[i].stage = "replied"
              /\ IF deletes[i].resp = "ok"
                   THEN /\ jobs' = SelectSeq(jobs, LAMBDA j : j # deletes[i].job)
                        /\ deleteResult' = "resolved"
                   ELSE /\ jobs' = jobs
                        /\ deleteResult' = "rejected" ]_vars

\* a DELETE was refused, deleteJobById rejected and every job is still listed
C1_Witness ==
  /\ deleteResult = "rejected"
  /\ deletes = <<>>
  /\ jobs = SeqOfSet(JobIds)
  /\ dbJobs = JobIds

\* C2: when handleUpdateCandidateStatus has called updateCandidateStatusInStore(C, S)
\* and sent the PATCH, which is not answered yet, the store holds status S for C
\* and the backend's data is untouched.
C2_OptimisticStatus ==
  [][ Len(patches') > Len(patches) =>
        LET p == patches'[Len(patches')]
        IN /\ p.stage = "sent"
           /\ \E k \in 1..Len(candidates') : candidates'[k].id = p.cand
           /\ \A k \in 1..Len(candidates') :
                 candidates'[k].id = p.cand => candidates'[k].status = p.status
           /\ dbStatus' = dbStatus ]_vars

\* a PATCH is unanswered and the store already shows its status, which the
\* backend does not hold
C2_Witness ==
  \E i \in 1..Len(patches) :
     /\ patches[i].stage = "sent"
     /\ StoreStatus(candidates, patches[i].cand) = patches[i].status
     /\ dbStatus[patches[i].cand] # patches[i].status

\* the store holds, for every candidate, the status the backend holds
StoreMatchesBackend ==
  \A c \in CandIds : StoreStatus(candidates, c) = dbStatus[c]

\* C3 as stated: when the fetchAllData that follows a failed PATCH completes,
\* the store's statuses are the backend's.
C3_Original ==
  [][ Len(fetches') < Len(fetches) =>
        \A i \in 1..Len(fetches) :
           (fetches' = RemoveAt(fetches, i) /\ fetches[i].origin = "rollback")
             => StoreMatchesBackend' ]_vars

\* C3 as amended: when the fetchAllData that follows a failed PATCH completes
\* with a response that is a success, the store's candidates and jobs are
\* those the backend served for it, whatever the store held.
C3_RollbackByRefetch ==
  [][ Len(fetches') < Len(fetches) =>
        \A i \in 1..Len(fetches) :
           ( /\ fetches' = RemoveAt(fetches, i)
             /\ fetches[i].origin = "rollback"
             /\ ~fetches[i].resp.neterr /\ fetches[i].resp.json /\ fetches[i].resp.ok )
             => /\ candidates' = fetches[i].resp.candidates
                /\ jobs' = fetches[i].resp.jobs ]_vars

\* the refetch that follows a failed PATCH has been served the backend's
\* data, which differs from the optimistic status the store still shows
C3_Witness ==
  \E i \in 1..Len(fetches) :
     /\ fetches[i].origin = "rollback"
     /\ fetches[i].stage = "replied"
     /\ FetchSucceeds(fetches[i].resp)
     /\ fetches[i].resp.candidates # candidates
     /\ \A c \in CandIds : fetches[i].resp.candidates[c].status = dbStatus[c]

C5_FetchFailsClosed ==
  [][ Len(fetches') < Len(fetches) =>
        \E i \in 1..Len(fetches) :
           /\ fetches' = RemoveAt(fetches, i)
           /\ fetches[i].stage = "replied"
           /\ LET r == fetches[i].resp
              IN (r.neterr \/ ~r.json \/ ~r.ok) =>
                    /\ jobs' = <<>>
                    /\ candidates' = <<>>
                    /\ error' # NULL
                    /\ ~isDataLoading' ]_vars

\* data had been loaded (a status change was confirmed on it), and a later
\* fetchAllData that got a 200 response that is not JSON has emptied the store
C5_Witness ==
  /\ error = ErrUnexpected
  /\ jobs = <<>>
  /\ candidates = <<>>
  /\ ~isDataLoading
  /\ fetches = <<>>
  /\ \E c \in CandIds : dbStatus[c] # "Triagem"

\* C6 as stated: in every state isGoogleConnected is true exactly when the
\* profile exists and carries a non-null, non-empty google_refresh_token.
C6_FlagMatchesCredential ==
  isGoogleConnected = hasGoogleToken(profile)

RefetchCalls == IF refetches' > refetches THEN refetches' - refetches ELSE 0

C9_Original ==
  [][ Len(disconnects') < Len(disconnects) =>
        \A i \in 1..Len(disconnects) :
           (disconnects' = RemoveAt(disconnects, i) /\ disconnects[i] # "ok")
             => profile'.google_refresh_token = profile.google_refresh_token ]_vars

\* C10 as stated: when a submission is answered, the modal is closed if the
\* event was created; otherwise it stays open, ready for another submission,
\* and the backend's error message is shown.
C10_Original ==
  [][ Len(submits') < Len(submits) =>
        \A i \in 1..Len(submits) :
           submits' = RemoveAt(submits, i) =>
             IF ScheduleSucceeds(submits[i].resp)
               THEN ~isScheduleModalOpen'
               ELSE /\ isScheduleModalOpen' /\ candidateToSchedule' # 0
                    /\ SubmitEnabled'
                    /\ scheduleAlert'.kind = "error" ]_vars

\* C11: when the list-calendars request of an open modal is answered with
\* success and no calendar, loading ends with calendarError non-empty; and a
\* create-event request is only ever sent from a modal that is neither loading
\* nor showing a calendar error, so none is sent in that state.
C11_NoCalendarDisablesSubmit ==
  [][ /\ Len(calFetches') < Len(calFetches) =>
           \A i \in 1..Len(calFetches) :
              ( /\ calFetches' = RemoveAt(calFetches, i)
                /\ ~calFetches[i].resp.neterr
                /\ calFetches[i].resp.ok /\ calFetches[i].resp.success
                /\ calFetches[i].resp.calendars = <<>> )
                => calendarError' # "" /\ ~isLoadingCalendars'
      /\ Len(submits') > Len(submits) =>
           calendarError = "" /\ ~isLoadingCalendars ]_vars

\* the modal is open, its calendars were loaded and there is none: it shows
\* the error and nothing is being submitted
C11_Witness ==
  /\ isScheduleModalOpen /\ candidateToSchedule # 0
  /\ ~isLoadingCalendars
  /\ calendarError = ErrNoCalendar
  /\ calendars = <<>>
  /\ calFetches = <<>>
  /\ submits = <<>>

\* C12: a create-event request is sent, and isSubmitting set, only by a
\* submission with a start, an end and a selected calendar; a submission that
\* lacks one of them is answered by the alert alone: no request, isSubmitting
\* unchanged (false) and the modal still open.
C12_IncompleteSubmissionRejected ==
  [][ /\ (Len(submits') > Len(submits) \/ (isSubmitting' /\ ~isSubmitting))
           => /\ startDateTime # "" /\ endDateTime # "" /\ selectedCalendarId # 0
              /\ Len(submits') = Len(submits) + 1
      /\ (scheduleAlert' # scheduleAlert /\ scheduleAlert'.message = MsgFillFields)
           => /\ startDateTime = "" \/ endDateTime = "" \/ selectedCalendarId = 0
              /\ submits' = submits
              /\ ~isSubmitting /\ ~isSubmitting'
              /\ isScheduleModalOpen /\ isScheduleModalOpen' ]_vars

\* a submission without an end was rejected: the alert is shown, the modal is
\* open on the form and nothing was sent
C12_Witness ==
  /\ scheduleAlert.message = MsgFillFields
  /\ isScheduleModalOpen /\ candidateToSchedule # 0
  /\ startDateTime # "" /\ endDateTime = ""
  /\ ~isSubmitting
  /\ submits = <<>>

\* C13: when a create-event request is answered, onDataSynced starts one
\* fetchAllData if the answer is OK with success = true, and no fetchAllData is
\* started otherwise; and nothing but such an answer starts that fetchAllData.
C13_SyncOnlyOnSuccess ==
  [][ /\ Len(submits') < Len(submits) =>
           \A i \in 1..Len(submits) :
              submits' = RemoveAt(submits, i) =>
                LET r == submits[i].resp
                IN IF ~r.neterr /\ r.ok /\ r.success
                     THEN /\ fetches' = Append(fetches, [origin |-> "synced", stage |-> "sent",
                                                         resp |-> NoResp])
                          /\ isDataLoading'
                     ELSE fetches' = fetches /\ isDataLoading' = isDataLoading
      /\ ( /\ Len(fetches') > Len(fetches)
           /\ fetches'[Len(fetches')].origin = "synced" )
           => \E i \in 1..Len(submits) :
                 /\ submits' = RemoveAt(submits, i)
                 /\ submits[i].resp.ok /\ submits[i].resp.success ]_vars

\* the event was created: the success alert is shown and the fetchAllData of
\* onDataSynced is in flight
C13_Witness ==
  /\ scheduleAlert.message = MsgScheduled
  /\ submits = <<>>
  /\ \E i \in 1..Len(fetches) : fetches[i].origin = "synced" /\ fetches[i].stage = "sent"
  /\ isDataLoading

C14_LastResolvedWins ==
  [][ Len(fetches') < Len(fetches) =>
        \E i \in 1..Len(fetches) :
           /\ fetches' = RemoveAt(fetches, i)
           /\ fetches[i].stage = "replied"
           /\ LET r == fetches[i].resp
              IN IF ~r.neterr /\ r.json /\ r.ok
                   THEN jobs' = r.jobs /\ candidates' = r.candidates /\ error' = error
                   ELSE jobs' = <<>> /\ candidates' = <<>> /\ error' # NULL ]_vars

\* two calls are in flight; the one issued last was answered with the data
\* while the one issued first, which is about to fail, has not completed: its
\* completion comes last and leaves the store cleared
C14_Witness ==
  /\ Len(fetches) = 2
  /\ fetches[2].stage = "replied" /\ FetchSucceeds(fetches[2].resp)
  /\ fetches[1].stage = "replied" /\ ~FetchSucceeds(fetches[1].resp)
  /\ ~EffectsPending

\* C16: closing the modal leaves the list-calendars requests in flight; and the
\* answer of any request in flight, whether the modal is open or closed and
\* whether or not a later request was issued since, is applied to the modal's
\* state: loading ends, a failure or an empty list sets the error, and a list
\* replaces the calendars and the selection.
C16_LateAnswerApplied ==
  [][ /\ (isScheduleModalOpen /\ ~isScheduleModalOpen') => Len(calFetches') = Len(calFetches)
      /\ Len(calFetches') < Len(calFetches) =>
           \E i \in 1..Len(calFetches) :
              /\ calFetches' = RemoveAt(calFetches, i)
              /\ calFetches[i].stage = "replied"
              /\ ~isLoadingCalendars'
              /\ LET r == calFetches[i].resp
                 IN IF r.neterr \/ ~r.ok \/ ~r.success
                      THEN /\ calendarError' # ""
                           /\ calendars' = calendars
                           /\ selectedCalendarId' = selectedCalendarId
                      ELSE /\ calendars' = r.calendars
                           /\ r.calendars = <<>> => calendarError' # ""
                           /\ r.calendars # <<>> =>
                                \E k \in 1..Len(r.calendars) :
                                   selectedCalendarId' = r.calendars[k].id ]_vars

\* the modal was closed and opened again while its first request was in
\* flight: that request has been answered with an error, which is about to be
\* applied to the reopened modal, whose own request is not answered yet
C16_Witness ==
  /\ isScheduleModalOpen /\ candidateToSchedule # 0
  /\ Len(calFetches) = 2
  /\ calFetches[1].stage = "replied" /\ ~calFetches[1].resp.success
  /\ calFetches[2].stage = "sent"
  /\ isLoadingCalendars /\ calendarError = ""
  /\ ~EffectsPending

\* C17 as stated: when a list-calendars request completes, the selection is
\* the primary calendar, or else the first, of a list that was loaded, and the
\* modal shows a calendar error exactly when the list is empty or the request
\* failed.
C17_Original ==
  [][ Len(calFetches') < Len(calFetches) =>
        \A i \in 1..Len(calFetches) :
           calFetches' = RemoveAt(calFetches, i) =>
             LET r == calFetches[i].resp
                 failed == r.neterr \/ ~r.ok \/ ~r.success
             IN /\ (~failed /\ r.calendars # <<>>) =>
                      \E k \in 1..Len(r.calendars) :
                         /\ selectedCalendarId' = r.calendars[k].id
                         /\ \A j \in 1..(k - 1) : ~r.calendars[j].primary
                         /\ r.calendars[k].primary
                              \/ (k = 1 /\ \A j \in 1..Len(r.calendars) : ~r.calendars[j].primary)
                /\ calendarError' # "" <=> (failed \/ r.calendars = <<>>) ]_vars

\* C17 as amended: when a list-calendars request completes, a list that was
\* loaded and is not empty selects its primary calendar, or else its first,
\* and leaves calendarError as it was (empty, unless the answer of another
\* request set it since the modal was opened); an empty list or a failed
\* request sets calendarError.
C17_SelectionAndError ==
  [][ Len(calFetches') < Len(calFetches) =>
        \A i \in 1..Len(calFetches) :
           calFetches' = RemoveAt(calFetches, i) =>
             LET r == calFetches[i].resp
                 failed == r.neterr \/ ~r.ok \/ ~r.success
             IN /\ (~failed /\ r.calendars # <<>>) =>
                      /\ \E k \in 1..Len(r.calendars) :
                            /\ selectedCalendarId' = r.calendars[k].id
                            /\ \A j \in 1..(k - 1) : ~r.calendars[j].primary
                            /\ r.calendars[k].primary
                                 \/ (k = 1 /\ \A j \in 1..Len(r.calendars) : ~r.calendars[j].primary)
                      /\ calendarError' = calendarError
                      /\ (Len(calFetches) = 1 /\ isLoadingCalendars) => calendarError' = ""
                /\ (failed \/ r.calendars = <<>>) => calendarError' # "" ]_vars

\* the calendars are loaded and the selected one is the primary calendar,
\* which is not the first of the list
C17_Witness ==
  /\ isScheduleModalOpen /\ candidateToSchedule # 0
  /\ ~isLoadingCalendars /\ calendarError = ""
  /\ Len(calendars) > 1
  /\ ~calendars[1].primary
  /\ \E k \in 2..Len(calendars) : calendars[k].primary /\ selectedCalendarId = calendars[k].id
  /\ calFetches = <<>>

\* C18: a successful answer of the list-calendars route holds, in Google's
\* order, exactly the calendars of the account whose access role is owner or
\* writer, and no calendar when Google gave no items.
C18_WritableCalendarsOnly ==
  \A i \in 1..Len(calFetches) :
     (calFetches[i].stage = "replied" /\ calFetches[i].resp.success) =>
        LET g == calFetches[i].google
            cals == calFetches[i].resp.calendars
            writable == { k \in 1..Len(g.items) : g.items[k].accessRole \in {"owner", "writer"} }
        IN /\ ~g.present => cals = <<>>
           /\ \A k \in 1..Len(cals) : cals[k].accessRole \in {"owner", "writer"}
           /\ g.present =>
                /\ Len(cals) = Cardinality(writable)
                /\ \A k \in writable : \E j \in 1..Len(cals) : cals[j] = g.items[k]
                /\ \A j1, j2 \in 1..Len(cals) :
                      j1 < j2 => \E k1, k2 \in writable :
                                    k1 < k2 /\ g.items[k1] = cals[j1] /\ g.items[k2] = cals[j2]

\* the account has a calendar the user can only read and others the user can
\* write: the answer holds the others only
C18_Witness ==
  \E i \in 1..Len(calFetches) :
     /\ calFetches[i].stage = "replied" /\ calFetches[i].resp.success
     /\ \E k \in 1..Len(calFetches[i].google.items) :
           calFetches[i].google.items[k].accessRole = "reader"
     /\ Len(calFetches[i].resp.calendars) > 1
     /\ Len(calFetches[i].resp.calendars) < Len(calFetches[i].google.items)

\* C19: a create-event request answered with success = true has left an event
\* in the calendar it named and an agendamento record that references its
\* candidate, its job and the link of that event; and the record is written
\* only for a request whose event is already inserted.
C19_CreatedMeansInsertedThenPersisted ==
  /\ [](\A i \in 1..Len(submits) :
          /\ (submits[i].stage = "replied" /\ submits[i].resp.success) =>
                /\ submits[i].event.calendarId = submits[i].calendarId
                /\ submits[i].event.calendarId # 0
                /\ submits[i].event.htmlLink # ""
                /\ submits[i].agendamento.candidate = submits[i].candidate
                /\ submits[i].agendamento.job = submits[i].job
                /\ submits[i].agendamento.google_event_link = submits[i].event.htmlLink
          /\ submits[i].agendamento.google_event_link # "" => submits[i].event.htmlLink # "")
  /\ [][ \A i \in 1..Len(submits) :
            ( /\ Len(submits') = Len(submits)
              /\ submits'[i].agendamento # submits[i].agendamento )
              => /\ submits[i].event.htmlLink # ""
                 /\ submits'[i].event = submits[i].event ]_vars

\* a request was answered with success = true: the event is in the selected
\* calendar and the agendamento record holds its link
C19_Witness ==
  \E i \in 1..Len(submits) :
     /\ submits[i].stage = "replied"
     /\ submits[i].resp.success
     /\ submits[i].event.calendarId = submits[i].calendarId
     /\ submits[i].agendamento.google_event_link = EventHtmlLink
     /\ submits[i].agendamento.candidate = candidateToSchedule

\* old and new are a queue of requests before and after a step: the step sent
\* one request and touched no other
IssuesOne(old, new) ==
  /\ Len(new) = Len(old) + 1
  /\ SubSeq(new, 1, Len(old)) = old
  /\ new[Len(new)].stage = "sent"

\* the step sent no request: the queue is as it was, or one request was
\* settled and removed, or a request moved on at the backend; no request
\* already answered is unanswered again
IssuesNone(old, new) ==
  \/ \E i \in 1..Len(old) : new = RemoveAt(old, i)
  \/ /\ Len(new) = Len(old)
     /\ \A i \in 1..Len(old) : new[i].stage = "sent" => new[i] = old[i]

\* C20: nothing is retried. The step that accepts a schedule submission sends
\* exactly one create-event request and no other step sends one; a step that
\* changes a candidate's status in the store sends exactly one PATCH, and
\* every PATCH sent carries the status the same step put in the store; every
\* step sends at most one DELETE and at most one GET, the GET with the store
\* set to loading; and a step that handles an answer, success or failure,
\* removes that request and sends no request of its kind again.
C20_NoAutomaticRetry ==
  [][ /\ IF ~isSubmitting /\ isSubmitting'
           THEN IssuesOne(submits, submits')
           ELSE IssuesNone(submits, submits')
      /\ IssuesOne(patches, patches') \/ IssuesNone(patches, patches')
      /\ (candidates' # candidates /\ fetches' = fetches) => IssuesOne(patches, patches')
      /\ IssuesOne(patches, patches') =>
            StoreStatus(candidates', patches'[Len(patches')].cand)
               = patches'[Len(patches')].status
      /\ IssuesOne(deletes, deletes') \/ IssuesNone(deletes, deletes')
      /\ IssuesOne(fetches, fetches') \/ IssuesNone(fetches, fetches')
      /\ IssuesOne(fetches, fetches') => isDataLoading' /\ error' = NULL
      /\ \A i \in 1..Len(submits) :
            (Len(submits') = Len(submits) - 1 /\ submits' = RemoveAt(submits, i)
               /\ ~ScheduleSucceeds(submits[i].resp))
              => fetches' = fetches /\ patches' = patches /\ deletes' = deletes
      /\ \A i \in 1..Len(deletes) :
            (deletes' = RemoveAt(deletes, i))
              => fetches' = fetches /\ patches' = patches /\ submits' = submits
      /\ \A i \in 1..Len(fetches) :
            (fetches' = RemoveAt(fetches, i))
              => patches' = patches /\ deletes' = deletes /\ submits' = submits
    ]_vars

\* a submission and a job deletion were both rejected and a status change
\* failed (its rollback fetch is in flight): none of the three requests is in
\* flight again
C20_Witness ==
  /\ submits = <<>>
  /\ scheduleAlert.kind = "error"
  /\ deletes = <<>>
  /\ deleteResult = "rejected"
  /\ patches = <<>>
  /\ \E i \in 1..Len(fetches) : fetches[i].origin = "rollback"

\* C21: the create-event route is all-or-nothing: a request the route answered
\* with success = false (400 or 500) has left no event in Google Calendar and
\* no agendamento record.
C21_Original ==
  \A i \in 1..Len(submits) :
     ( /\ submits[i].stage = "replied"
       /\ ~submits[i].resp.neterr
       /\ ~submits[i].resp.success )
       => /\ submits[i].event.htmlLink = ""
          /\ submits[i].event.calendarId = 0
          /\ submits[i].agendamento.google_event_link = ""

\* C22: isDataLoading is true in every state in which a fetchAllData call is
\* still in flight, two overlapping calls included, and false once no call is
\* in flight.
C22_Original ==
  /\ Len(fetches) > 0 => isDataLoading = TRUE
  /\ Len(fetches) = 0 => isDataLoading = FALSE

\* C23: the signup route never creates two user rows with the same
\* lower-cased email, whatever the interleaving of concurrent requests, and a
\* request answered 409 has created no row.
C23_Original ==
  /\ \A a, b \in 1..Len(users) : users[a] = users[b] => a = b
  /\ \A i \in 1..Len(signups) : signups[i].status = 409 => signups[i].row = 0

====
